---------------------------- MODULE Spec2Model ----------------------------
(***************************************************************************)
(* Model of src/cli/o3de_material_generator.py: the command line parser    *)
(* (main), the texture renamer (build.rename_texture_files), the material  *)
(* assembler (build.make_material) and the write of the material file.     *)
(*                                                                         *)
(* Strings are TLA+ strings, built and inspected character by character    *)
(* (\o, Len, SubSeq) the way the Python code builds them.  The file system *)
(* is a function from path to file content, with the POSIX meaning of      *)
(* os.path.join, os.path.exists and os.rename (line 1 of the script names  *)
(* /usr/bin/python).  I/O failures (section 7, item 3 of the               *)
(* specification) are not modelled.                                        *)
(***************************************************************************)
EXTENDS Integers, Sequences, FiniteSets, TLC

(***************************************************************************)
(* Bounds of the model.                                                    *)
(***************************************************************************)
\* longest argument vector handed to main
MaxArgs == 3
\* most categories enabled in a configuration handed directly to build()
MaxEnabled == 2
\* most files present in the directory before a direct build() run
MaxFiles == 2

(***************************************************************************)
(* String helpers (Python str methods used by the script and by getopt).   *)
(***************************************************************************)
\* s[k] for a 1-based k
CharAt(s, k) == SubSeq(s, k, k)

\* s.startswith(p)
StartsWith(s, p) == Len(s) >= Len(p) /\ SubSeq(s, 1, Len(p)) = p

\* s.endswith(p)
EndsWith(s, p) == Len(s) >= Len(p) /\ SubSeq(s, Len(s) - Len(p) + 1, Len(s)) = p

\* s[k-1:] for a 1-based k
From(s, k) == SubSeq(s, k, Len(s))

\* s.replace(old, new) for a one-character old (line 182: replace("\\", '/'))
RECURSIVE ReplaceFrom(_, _, _, _)
ReplaceFrom(s, old, new, k) ==
    IF k > Len(s) THEN ""
    ELSE (IF CharAt(s, k) = old THEN new ELSE CharAt(s, k)) \o ReplaceFrom(s, old, new, k + 1)

Replace(s, old, new) == ReplaceFrom(s, old, new, 1)

\* s.index(c), 0 when c does not occur (1-based otherwise)
RECURSIVE IndexOf(_, _, _)
IndexOf(s, c, k) ==
    IF k > Len(s) THEN 0
    ELSE IF CharAt(s, k) = c THEN k
    ELSE IndexOf(s, c, k + 1)

\* posixpath.join(a, b)
Join(a, b) ==
    IF StartsWith(b, "/") THEN b
    ELSE IF a = "" \/ EndsWith(a, "/") THEN a \o b
    ELSE a \o "/" \o b

(***************************************************************************)
(* getopt.getopt(argv, shortopts, longopts) as main calls it (lines 61-62). *)
(***************************************************************************)
ShortOpts == "hvf:o:d:a:"

LongOpts == <<"occ", "cav", "dif", "dis", "emi", "met", "ddn", "rou", "default", "all">>

\* the result of a failed parse (GetoptError raised)
GetoptError == [ok |-> FALSE, opts |-> <<>>]

\* getopt.short_has_arg: "unknown", "flag" or "arg"
ShortKind(c) ==
    LET k == IndexOf(ShortOpts, c, 1)
    IN  IF c = ":" \/ k = 0 THEN "unknown"
        ELSE IF CharAt(ShortOpts, k + 1) = ":" THEN "arg"
        ELSE "flag"

\* getopt.long_has_args: the unique long option opt abbreviates, "" when none
\* or when ambiguous (no long option of the script takes an argument)
LongMatch(opt) ==
    LET possibilities == {k \in 1..Len(LongOpts) : StartsWith(LongOpts[k], opt)}
    IN  IF possibilities = {} THEN ""
        ELSE IF \E k \in possibilities : LongOpts[k] = opt THEN opt
        ELSE IF Cardinality(possibilities) > 1 THEN ""
        ELSE LongOpts[CHOOSE k \in possibilities : TRUE]

\* getopt.do_shorts: the options of one "-xyz" argument; rest is argv after it.
\* Returns [ok, opts, rest].
RECURSIVE DoShorts(_, _, _)
DoShorts(optstring, opts, rest) ==
    IF optstring = "" THEN [ok |-> TRUE, opts |-> opts, rest |-> rest]
    ELSE LET c     == CharAt(optstring, 1)
             after == From(optstring, 2)
             kind  == ShortKind(c)
         IN  IF kind = "unknown" THEN [ok |-> FALSE, opts |-> <<>>, rest |-> <<>>]
             ELSE IF kind = "flag"
                  THEN DoShorts(after, Append(opts, [opt |-> "-" \o c, arg |-> ""]), rest)
             ELSE IF after # ""
                  THEN [ok |-> TRUE, opts |-> Append(opts, [opt |-> "-" \o c, arg |-> after]),
                        rest |-> rest]
             ELSE IF rest = <<>> THEN [ok |-> FALSE, opts |-> <<>>, rest |-> <<>>]
             ELSE [ok |-> TRUE, opts |-> Append(opts, [opt |-> "-" \o c, arg |-> Head(rest)]),
                   rest |-> Tail(rest)]

\* getopt.do_longs for "--name" or "--name=value"
DoLongs(body, opts, rest) ==
    LET eq     == IndexOf(body, "=", 1)
        opt    == IF eq = 0 THEN body ELSE SubSeq(body, 1, eq - 1)
        match  == LongMatch(opt)
    IN  IF match = "" \/ eq # 0 THEN [ok |-> FALSE, opts |-> <<>>, rest |-> <<>>]
        ELSE [ok |-> TRUE, opts |-> Append(opts, [opt |-> "--" \o match, arg |-> ""]),
              rest |-> rest]

\* the while loop of getopt.getopt
RECURSIVE GetoptLoop(_, _)
GetoptLoop(args, opts) ==
    IF args = <<>> \/ ~StartsWith(Head(args), "-") \/ Head(args) = "-"
    THEN [ok |-> TRUE, opts |-> opts]
    ELSE IF Head(args) = "--" THEN [ok |-> TRUE, opts |-> opts]
    ELSE LET r == IF StartsWith(Head(args), "--")
                  THEN DoLongs(From(Head(args), 3), opts, Tail(args))
                  ELSE DoShorts(From(Head(args), 2), opts, Tail(args))
         IN  IF r.ok THEN GetoptLoop(r.rest, r.opts) ELSE GetoptError

getopt(args) == GetoptLoop(args, <<>>)

(***************************************************************************)
(* BuildConfig (lines 39-53) and the option handlers (lines 75-125).       *)
(***************************************************************************)
\* os.getcwd() when the class body runs (line 52)
Cwd == "/work"

BuildConfig ==
    [export_occ |-> FALSE, export_cav |-> FALSE, export_dif |-> FALSE, export_dis |-> FALSE,
     export_emi |-> FALSE, export_met |-> FALSE, export_ddn |-> FALSE, export_rou |-> FALSE,
     input_file_name |-> "", output_file_name |-> "",
     textures_dir_path |-> Cwd, assets_root_path |-> "Assets"]

setup_default(cfg) ==
    [cfg EXCEPT !.export_dif = TRUE, !.export_ddn = TRUE, !.export_occ = TRUE,
                !.export_met = TRUE, !.export_rou = TRUE]

\* --all without the call of setup_default
setup_all_only(cfg) ==
    [cfg EXCEPT !.export_emi = TRUE, !.export_cav = TRUE, !.export_dis = TRUE]

setup_all(cfg) ==
    [setup_default(cfg) EXCEPT !.export_emi = TRUE, !.export_cav = TRUE, !.export_dis = TRUE]

\* one pass of the body of "for opt, arg in opts" for an option other than -h and -v
ApplyOption(cfg, opt, arg) ==
    CASE opt = "-f"        -> [cfg EXCEPT !.input_file_name = arg]
      [] opt = "-o"        -> [cfg EXCEPT !.output_file_name = arg]
      [] opt = "-d"        -> [cfg EXCEPT !.textures_dir_path = arg]
      [] opt = "-a"        -> [cfg EXCEPT !.assets_root_path = arg]
      [] opt = "--occ"     -> [cfg EXCEPT !.export_occ = TRUE]
      [] opt = "--cav"     -> [cfg EXCEPT !.export_cav = TRUE]
      [] opt = "--dif"     -> [cfg EXCEPT !.export_dif = TRUE]
      [] opt = "--dis"     -> [cfg EXCEPT !.export_dis = TRUE]
      [] opt = "--emi"     -> [cfg EXCEPT !.export_emi = TRUE]
      [] opt = "--met"     -> [cfg EXCEPT !.export_met = TRUE]
      [] opt = "--ddn"     -> [cfg EXCEPT !.export_ddn = TRUE]
      [] opt = "--rou"     -> [cfg EXCEPT !.export_rou = TRUE]
      [] opt = "--default" -> setup_default(cfg)
      [] opt = "--all"     -> setup_all(cfg)
      [] OTHER             -> cfg

\* what help() prints (lines 206-208) and what error() prints (lines 201-203)
HelpText == "O3DE Material Generator for"

ErrorText == "Invalid arguments passed to the script.\n"

(***************************************************************************)
(* build(): the map table, the material and the path helpers               *)
(* (lines 129-152).                                                        *)
(***************************************************************************)
maps(cfg) ==
    << [name |-> "Ambient Occlusion", m |-> "ao", key |-> "occlusion.diffuseTextureMap",
        enabled |-> cfg.export_occ],
       [name |-> "Specular Cavity", m |-> "cavity", key |-> "occlusion.specularTextureMap",
        enabled |-> cfg.export_cav],
       [name |-> "Diffuse Color", m |-> "albedo", key |-> "baseColor.textureMap",
        enabled |-> cfg.export_dif],
       [name |-> "Height", m |-> "displacement", key |-> "parallax.textureMap",
        enabled |-> cfg.export_dis],
       [name |-> "Emissive", m |-> "emissive", key |-> "emissive.textureMap",
        enabled |-> cfg.export_emi],
       [name |-> "Metallic", m |-> "metalness", key |-> "metallic.textureMap",
        enabled |-> cfg.export_met],
       [name |-> "Normal", m |-> "normal", key |-> "normal.textureMap",
        enabled |-> cfg.export_ddn],
       [name |-> "Roughness", m |-> "roughness", key |-> "roughness.textureMap",
        enabled |-> cfg.export_rou] >>

NumMaps == Len(maps(BuildConfig))

MaterialTypeVersion == 4

\* the dict of lines 139-143; propertyValues keeps the insertion order of a dict
NewMaterial ==
    [materialType |-> "Materials/Types/StandardPBR.materialtype",
     materialTypeVersion |-> MaterialTypeVersion,
     propertyValues |-> <<>>]

\* the value of the variable material while build() has not created the dict
NoMaterial == [materialType |-> "", materialTypeVersion |-> 0, propertyValues |-> <<>>]

make_map_name(file_name, map_name) == file_name \o "_" \o map_name \o ".tiff"

make_file_map_name(cfg, file_name, map_name) ==
    Join(cfg.textures_dir_path, make_map_name(file_name, map_name))

\* the asset name built from the input base name
make_asset_map_name_input(cfg, map_name) ==
    Join(cfg.assets_root_path, make_map_name(cfg.input_file_name, map_name))

make_asset_map_name(cfg, map_name) ==
    Join(cfg.assets_root_path, make_map_name(cfg.output_file_name, map_name))

\* the path of line 194
material_file_name(cfg) == Join(cfg.textures_dir_path, cfg.output_file_name \o ".material")

\* d[key] = value on a dict kept as a sequence of items
DictSet(d, key, value) ==
    IF \E k \in 1..Len(d) : d[k].key = key
    THEN [k \in 1..Len(d) |-> IF d[k].key = key THEN [key |-> key, value |-> value] ELSE d[k]]
    ELSE Append(d, [key |-> key, value |-> value])

DictKeys(d) == {d[k].key : k \in 1..Len(d)}

DictGet(d, key) == d[CHOOSE k \in 1..Len(d) : d[k].key = key].value

\* json.dump of a str: quotes and backslashes escaped
RECURSIVE JsonEscape(_, _)
JsonEscape(s, k) ==
    IF k > Len(s) THEN ""
    ELSE (IF CharAt(s, k) \in {"\"", "\\"} THEN "\\" \o CharAt(s, k) ELSE CharAt(s, k))
         \o JsonEscape(s, k + 1)

JsonString(s) == "\"" \o JsonEscape(s, 1) \o "\""

RECURSIVE JsonItems(_, _)
JsonItems(d, k) ==
    IF k > Len(d) THEN ""
    ELSE (IF k > 1 THEN ", " ELSE "") \o JsonString(d[k].key) \o ": " \o JsonString(d[k].value)
         \o JsonItems(d, k + 1)

\* json.dump(material) with the default separators (line 195)
JsonDump(mat) ==
    "{" \o JsonString("materialType") \o ": " \o JsonString(mat.materialType) \o ", "
        \o JsonString("materialTypeVersion") \o ": " \o ToString(mat.materialTypeVersion) \o ", "
        \o JsonString("propertyValues") \o ": {" \o JsonItems(mat.propertyValues, 1) \o "}}"

(***************************************************************************)
(* The file system: a function from path to content.                       *)
(***************************************************************************)
\* os.path.exists(path)
Exists(files, path) == path \in DOMAIN files

\* os.rename taken for a copy: the source stays
RenameCopy(files, src, dst) ==
    [p \in DOMAIN files \cup {dst} |-> IF p = dst THEN files[src] ELSE files[p]]

\* os.rename(src, dst) for an existing src: dst is replaced when it exists
Rename(files, src, dst) ==
    [p \in (DOMAIN files \ {src}) \cup {dst} |-> IF p = dst THEN files[src] ELSE files[p]]

\* open(path, 'a'): the data is added to what the file holds
AppendFile(files, path, data) ==
    [p \in DOMAIN files \cup {path} |->
        IF p = path THEN (IF path \in DOMAIN files THEN files[path] ELSE "") \o data
        ELSE files[p]]

\* open(path, 'w') followed by a write of data
WriteFile(files, path, data) ==
    [p \in DOMAIN files \cup {path} |-> IF p = path THEN data ELSE files[p]]

\* a directory holding the files of the set paths, each with its own content
InitialFs(paths) == [p \in paths |-> "data of " \o p]

(***************************************************************************)
(* State.                                                                  *)
(*   argv       the argument vector of the invocation (sys.argv[1:])       *)
(*   opts       the options getopt returned                                *)
(*   i          position of the "for opt, arg in opts" loop of main        *)
(*   j          position of the "for ... in maps" loop of build            *)
(*   pc         the statement the run is at                                *)
(*   config, verbose   the locals of main / the parameters of build        *)
(*   given      the configuration build() was entered with                 *)
(*   fs0, fs    the files when the run started, and now                    *)
(*   material   the dict build() fills                                     *)
(*   stdout     the lines printed by the run                               *)
(*   exitCode   the exit status, -1 while the run has not ended            *)
(*   run        which run of two this is                                   *)
(*   first      the first run, while the second runs: the files before it  *)
(*              (fs0) and after it (fs), and its material                  *)
(***************************************************************************)
VARIABLES argv, opts, i, j, pc, config, verbose, given, fs0, fs, material, stdout,
          exitCode, run, first

vars == <<argv, opts, i, j, pc, config, verbose, given, fs0, fs, material, stdout,
          exitCode, run, first>>

\* the arguments main is tried with
ArgTokens ==
    {"-h", "-v", "-f", "-fx", "-o", "-oy", "-ox", "-dtex", "-aArt\\Tex",
     "--dif", "--emi", "--all", "--bad", "x", ""}

RECURSIVE SeqsUpTo(_, _)
SeqsUpTo(S, n) ==
    IF n = 0 THEN {<<>>}
    ELSE LET shorter == SeqsUpTo(S, n - 1)
         IN  shorter \cup {Append(q, t) : q \in {r \in shorter : Len(r) = n - 1}, t \in S}

\* the value of first during the first run
NoRun == [fs0 |-> InitialFs({}), fs |-> InitialFs({}), material |-> NoMaterial]

\* directories main is run in
SampleDirs ==
    { InitialFs({}),
      InitialFs({"/work/x_albedo.tiff", "/work/x_normal.tiff", "/work/y_emissive.tiff",
                 "tex/x_albedo.tiff", "/work/y.material"}) }

Init ==
    /\ argv \in SeqsUpTo(ArgTokens, MaxArgs)
    /\ fs0 \in SampleDirs
    /\ fs = fs0
    /\ opts = <<>>
    /\ i = 0
    /\ j = 0
    /\ pc = "main"
    /\ config = BuildConfig
    /\ verbose = FALSE
    /\ given = BuildConfig
    /\ material = NoMaterial
    /\ stdout = <<>>
    /\ exitCode = -1
    /\ run = 1
    /\ first = NoRun

(***************************************************************************)
(* main (lines 56-110).                                                    *)
(***************************************************************************)
\* sys.exit(code) after printing lines
Exit(code, lines) ==
    /\ pc' = "exit"
    /\ exitCode' = code
    /\ stdout' = stdout \o lines

\* lines 60-65: getopt raises GetoptError
ParseError ==
    /\ pc = "main"
    /\ ~getopt(argv).ok
    /\ Exit(1, <<ErrorText>>)
    /\ UNCHANGED <<argv, opts, i, j, config, verbose, given, fs0, fs, material, run, first>>

\* lines 60-62: getopt returns
Parse ==
    /\ pc = "main"
    /\ getopt(argv).ok
    /\ opts' = getopt(argv).opts
    /\ pc' = "opts"
    /\ UNCHANGED <<argv, i, j, config, verbose, given, fs0, fs, material, stdout, exitCode,
                   run, first>>

\* lines 67-69
NoOptions ==
    /\ pc = "opts"
    /\ Len(opts) = 0
    /\ Exit(0, <<HelpText>>)
    /\ UNCHANGED <<argv, opts, i, j, config, verbose, given, fs0, fs, material, run, first>>

\* line 67 false, line 71 entered
EnterLoop ==
    /\ pc = "opts"
    /\ Len(opts) # 0
    /\ pc' = "loop"
    /\ i' = 1
    /\ UNCHANGED <<argv, opts, j, config, verbose, given, fs0, fs, material, stdout, exitCode,
                   run, first>>

\* lines 72-74 without the sys.exit()
OptionHelpNoExit ==
    /\ pc = "loop"
    /\ i <= Len(opts)
    /\ opts[i].opt = "-h"
    /\ stdout' = Append(stdout, HelpText)
    /\ i' = i + 1
    /\ UNCHANGED <<argv, opts, j, pc, config, verbose, given, fs0, fs, material, exitCode, run,
                   first>>

\* lines 72-74
OptionHelp ==
    /\ pc = "loop"
    /\ i <= Len(opts)
    /\ opts[i].opt = "-h"
    /\ Exit(0, <<HelpText>>)
    /\ UNCHANGED <<argv, opts, i, j, config, verbose, given, fs0, fs, material, run, first>>

\* lines 75-104
Option ==
    /\ pc = "loop"
    /\ i <= Len(opts)
    /\ opts[i].opt # "-h"
    /\ verbose' = (verbose \/ opts[i].opt = "-v")
    /\ config' = ApplyOption(config, opts[i].opt, opts[i].arg)
    /\ i' = i + 1
    /\ UNCHANGED <<argv, opts, j, pc, given, fs0, fs, material, stdout, exitCode, run, first>>

\* lines 106-108 without the sys.exit(1)
MissingInputNoExit ==
    /\ pc = "loop"
    /\ i > Len(opts)
    /\ config.input_file_name = ""
    /\ stdout' = Append(stdout, ErrorText)
    /\ pc' = "build"
    /\ UNCHANGED <<argv, opts, i, j, config, verbose, given, fs0, fs, material, exitCode, run,
                   first>>

\* lines 106-108
MissingInput ==
    /\ pc = "loop"
    /\ i > Len(opts)
    /\ config.input_file_name = ""
    /\ Exit(1, <<ErrorText>>)
    /\ UNCHANGED <<argv, opts, i, j, config, verbose, given, fs0, fs, material, run, first>>

\* line 110: build(config, verbose) is called
CallBuild ==
    /\ pc = "loop"
    /\ i > Len(opts)
    /\ config.input_file_name # ""
    /\ pc' = "build"
    /\ UNCHANGED <<argv, opts, i, j, config, verbose, given, fs0, fs, material, stdout, exitCode,
                   run, first>>

(***************************************************************************)
(* build (lines 128-198).                                                  *)
(***************************************************************************)
\* a print that only happens with -v
Verbose(line) == IF verbose THEN <<line>> ELSE <<>>

\* the two diagnostics (lines 171-173 and 184-186)
NotRenamed(cfg, entry) ==
    "    [E] The " \o entry.name \o " Map was enabled, but the file " \o cfg.output_file_name
        \o "_" \o entry.m \o ".tiff do not exists. The file was not renamed."

NotAdded(cfg, entry) ==
    "    [E] The " \o entry.name \o " Map was enabled, but the file " \o cfg.output_file_name
        \o "_" \o entry.m \o ".tiff do not exists. The file was not added in the material."

\* lines 129-143 and 188-191: the locals are created, rename_texture_files is called
EnterBuild ==
    /\ pc = "build"
    /\ given' = config
    /\ material' = NewMaterial
    /\ stdout' = stdout \o Verbose("[V] Building material file...")
    /\ pc' = "rename"
    /\ UNCHANGED <<argv, opts, i, j, config, verbose, fs0, fs, exitCode, run, first>>

\* line 155 without the test for an empty name
SkipsRenamingEqualOnly(cfg) == cfg.output_file_name = cfg.input_file_name

\* line 155
SkipsRenaming(cfg) ==
    cfg.output_file_name = "" \/ cfg.output_file_name = cfg.input_file_name

\* lines 155-161 without line 160
RenameSkipNoDefault ==
    /\ pc = "rename"
    /\ SkipsRenaming(config)
    /\ stdout' = stdout \o Verbose("    [V] Skipping texture files renaming.")
    /\ pc' = "make"
    /\ j' = 1
    /\ UNCHANGED <<argv, opts, i, config, verbose, given, fs0, fs, material, exitCode, run,
                   first>>

\* lines 155-161, then line 192 calls make_material
RenameSkip ==
    /\ pc = "rename"
    /\ SkipsRenaming(config)
    /\ stdout' = stdout \o Verbose("    [V] Skipping texture files renaming.")
    /\ config' = [config EXCEPT !.output_file_name = config.input_file_name]
    /\ pc' = "make"
    /\ j' = 1
    /\ UNCHANGED <<argv, opts, i, verbose, given, fs0, fs, material, exitCode, run, first>>

\* lines 163-166
RenameBegin ==
    /\ pc = "rename"
    /\ ~SkipsRenaming(config)
    /\ stdout' = stdout \o Verbose("    [V] Renaming texture files...")
    /\ pc' = "rename_loop"
    /\ j' = 1
    /\ UNCHANGED <<argv, opts, i, config, verbose, given, fs0, fs, material, exitCode, run, first>>

\* lines 166-173 with a missing source treated as fatal
RenameStepFatal ==
    /\ pc = "rename_loop"
    /\ j <= NumMaps
    /\ LET entry == maps(config)[j]
           src   == make_file_map_name(config, config.input_file_name, entry.m)
           dst   == make_file_map_name(config, config.output_file_name, entry.m)
       IN  IF ~entry.enabled THEN UNCHANGED <<fs, stdout, pc, exitCode>> /\ j' = j + 1
           ELSE IF Exists(fs, src)
                THEN /\ fs' = Rename(fs, src, dst)
                     /\ j' = j + 1
                     /\ UNCHANGED <<stdout, pc, exitCode>>
                ELSE /\ Exit(1, <<NotRenamed(config, entry)>>)
                     /\ UNCHANGED <<fs, j>>
    /\ UNCHANGED <<argv, opts, i, config, verbose, given, fs0, material, run, first>>

\* lines 166-173: one pass of the loop of rename_texture_files
RenameStep ==
    /\ pc = "rename_loop"
    /\ j <= NumMaps
    /\ LET entry == maps(config)[j]
           src   == make_file_map_name(config, config.input_file_name, entry.m)
           dst   == make_file_map_name(config, config.output_file_name, entry.m)
       IN  IF ~entry.enabled THEN UNCHANGED <<fs, stdout>>
           ELSE IF Exists(fs, src)
                THEN /\ fs' = Rename(fs, src, dst)
                     /\ UNCHANGED stdout
                ELSE /\ stdout' = Append(stdout, NotRenamed(config, entry))
                     /\ UNCHANGED fs
    /\ j' = j + 1
    /\ UNCHANGED <<argv, opts, i, pc, config, verbose, given, fs0, material, exitCode, run, first>>

\* lines 175-176, then line 192 calls make_material
RenameEnd ==
    /\ pc = "rename_loop"
    /\ j > NumMaps
    /\ stdout' = stdout \o Verbose("    [V] Texture files renamed.")
    /\ pc' = "make"
    /\ j' = 1
    /\ UNCHANGED <<argv, opts, i, config, verbose, given, fs0, fs, material, exitCode, run, first>>

\* lines 179-186 without the test of line 181
MakeStepUnchecked ==
    /\ pc = "make"
    /\ j <= NumMaps
    /\ LET entry == maps(config)[j]
       IN  IF ~entry.enabled THEN UNCHANGED material
           ELSE material' =
                    [material EXCEPT !.propertyValues =
                        DictSet(@, entry.key,
                                Replace(make_asset_map_name(config, entry.m), "\\", "/"))]
    /\ j' = j + 1
    /\ UNCHANGED <<argv, opts, i, pc, config, verbose, given, fs0, fs, stdout, exitCode, run,
                   first>>

\* lines 179-186: one pass of the loop of make_material
MakeStep ==
    /\ pc = "make"
    /\ j <= NumMaps
    /\ LET entry == maps(config)[j]
       IN  IF ~entry.enabled THEN UNCHANGED <<material, stdout>>
           ELSE IF Exists(fs, make_file_map_name(config, config.output_file_name, entry.m))
                THEN /\ material' =
                            [material EXCEPT !.propertyValues =
                                DictSet(@, entry.key,
                                        Replace(make_asset_map_name(config, entry.m), "\\", "/"))]
                     /\ UNCHANGED stdout
                ELSE /\ stdout' = Append(stdout, NotAdded(config, entry))
                     /\ UNCHANGED material
    /\ j' = j + 1
    /\ UNCHANGED <<argv, opts, i, pc, config, verbose, given, fs0, fs, exitCode, run, first>>

\* lines 194-198: the material file is written, build and main return
WriteMaterial ==
    /\ pc = "make"
    /\ j > NumMaps
    /\ fs' = WriteFile(fs, material_file_name(config), JsonDump(material))
    /\ Exit(0, Verbose("[V] Material file build process complete."))
    /\ UNCHANGED <<argv, opts, i, j, config, verbose, given, fs0, material, run, first>>

Next ==
    \/ ParseError
    \/ Parse
    \/ NoOptions
    \/ EnterLoop
    \/ OptionHelp
    \/ Option
    \/ MissingInput
    \/ CallBuild
    \/ EnterBuild
    \/ RenameSkip
    \/ RenameBegin
    \/ RenameStep
    \/ RenameEnd
    \/ MakeStep
    \/ WriteMaterial

Spec == Init /\ [][Next]_vars

(***************************************************************************)
(* build(config, verbose) entered directly, with every configuration main  *)
(* can hand to it (line 110: a non-empty input_file_name), in a directory   *)
(* holding up to MaxFiles files, and a second run with the same arguments.  *)
(***************************************************************************)
FlagNames == {"occ", "cav", "dif", "dis", "emi", "met", "ddn", "rou"}

\* BuildConfig with exactly the flags of E set by their options
WithFlags(E) ==
    [BuildConfig EXCEPT !.export_occ = "occ" \in E, !.export_cav = "cav" \in E,
                        !.export_dif = "dif" \in E, !.export_dis = "dis" \in E,
                        !.export_emi = "emi" \in E, !.export_met = "met" \in E,
                        !.export_ddn = "ddn" \in E, !.export_rou = "rou" \in E]

\* the output base names and assets roots build() is tried with
BuildNames ==
    { [output |-> "", root |-> "Assets"], [output |-> "x", root |-> "Assets"],
      [output |-> "y", root |-> "Assets"], [output |-> "y", root |-> "Art\\Tex"] }

\* the sets of enabled categories build() is tried with
FlagSets == {F \in SUBSET FlagNames : Cardinality(F) <= MaxEnabled} \cup {FlagNames}

BuildConfigs ==
    { [WithFlags(E) EXCEPT !.input_file_name = "x", !.output_file_name = n.output,
                           !.assets_root_path = n.root] :
        E \in FlagSets, n \in BuildNames }

\* the files a directory may hold before the run
BuildFiles ==
    {make_file_map_name(BuildConfig, b, m) :
        b \in {"x", "y"}, m \in {"ao", "albedo", "emissive", "roughness"}}
        \cup {"/work/y.material"}

InitBuild ==
    /\ argv = <<>>
    /\ opts = <<>>
    /\ i = 0
    /\ j = 0
    /\ pc = "build"
    /\ config \in BuildConfigs
    /\ verbose = FALSE
    /\ given = config
    /\ fs0 \in {InitialFs(P) : P \in {Q \in SUBSET BuildFiles : Cardinality(Q) <= MaxFiles}}
    /\ fs = fs0
    /\ material = NoMaterial
    /\ stdout = <<>>
    /\ exitCode = -1
    /\ run = 1
    /\ first = NoRun

\* the tool is run again with the same arguments, nothing else having touched the directory
Rerun ==
    /\ pc = "exit"
    /\ run = 1
    /\ run' = 2
    /\ first' = [fs0 |-> fs0, fs |-> fs, material |-> material]
    /\ fs0' = fs
    /\ config' = given
    /\ material' = NoMaterial
    /\ stdout' = <<>>
    /\ exitCode' = -1
    /\ j' = 0
    /\ pc' = "build"
    /\ UNCHANGED <<argv, opts, i, verbose, given, fs>>

NextBuild ==
    \/ EnterBuild
    \/ RenameSkip
    \/ RenameBegin
    \/ RenameStep
    \/ RenameEnd
    \/ MakeStep
    \/ WriteMaterial
    \/ Rerun

SpecBuild == InitBuild /\ [][NextBuild]_vars

(***************************************************************************)
(* main run on category flags only.                                        *)
(***************************************************************************)
FlagTokens ==
    {"--occ", "--cav", "--dif", "--dis", "--emi", "--met", "--ddn", "--rou", "--default", "--all"}

EightFlags == <<"--occ", "--cav", "--dif", "--dis", "--emi", "--met", "--ddn", "--rou">>

InitFlags ==
    /\ argv \in SeqsUpTo(FlagTokens, MaxArgs - 1) \cup {EightFlags}
    /\ fs0 \in SampleDirs
    /\ fs = fs0
    /\ opts = <<>>
    /\ i = 0
    /\ j = 0
    /\ pc = "main"
    /\ config = BuildConfig
    /\ verbose = FALSE
    /\ given = BuildConfig
    /\ material = NoMaterial
    /\ stdout = <<>>
    /\ exitCode = -1
    /\ run = 1
    /\ first = NoRun

NextFlags ==
    \/ Parse
    \/ NoOptions
    \/ EnterLoop
    \/ Option
    \/ MissingInput

SpecFlags == InitFlags /\ [][NextFlags]_vars
(***************************************************************************)
(* Vocabulary of the properties, written from the naming convention of the *)
(* specification (section 6), not from the map table of build().           *)
(***************************************************************************)
Suffixes ==
    <<"ao", "cavity", "albedo", "displacement", "emissive", "metalness", "normal", "roughness">>

PropertyKeys ==
    <<"occlusion.diffuseTextureMap", "occlusion.specularTextureMap", "baseColor.textureMap",
      "parallax.textureMap", "emissive.textureMap", "metallic.textureMap", "normal.textureMap",
      "roughness.textureMap">>

Categories == 1..8

\* whether category k was enabled in the configuration build() was entered with
Enabled(k) ==
    <<given.export_occ, given.export_cav, given.export_dif, given.export_dis,
      given.export_emi, given.export_met, given.export_ddn, given.export_rou>>[k]

\* a distinct, non-empty output base name was given
Distinct == given.output_file_name # "" /\ given.output_file_name # given.input_file_name

InBase == given.input_file_name

\* the output base name of the run: the one given, the input base name when none is distinct
OutBase == IF Distinct THEN given.output_file_name ELSE given.input_file_name

\* {textures_dir}/{base}_{suffix}.tiff
Texture(base, k) == given.textures_dir_path \o "/" \o base \o "_" \o Suffixes[k] \o ".tiff"

\* {assets_root}/{output_base}_{suffix}.tiff, written with forward slashes (section 4.3)
AssetPath(k) ==
    Replace(given.assets_root_path \o "/" \o OutBase \o "_" \o Suffixes[k] \o ".tiff", "\\", "/")

\* {textures_dir}/{output_base}.material
MaterialFile == given.textures_dir_path \o "/" \o OutBase \o ".material"

HasKey(k) == PropertyKeys[k] \in DictKeys(material.propertyValues)

\* the run is over and build() ran to its end
Built == pc = "exit" /\ material # NoMaterial

\* the statements of build()
BuildPcs == {"build", "rename", "rename_loop", "make"}

\* category k was handled by both loops: its file moved when it had to, its key set
\* exactly when its file is there
Processed(k) ==
    /\ HasKey(k) <=> Texture(OutBase, k) \in DOMAIN fs
    /\ (Distinct /\ Texture(InBase, k) \in DOMAIN fs0) =>
            (Texture(InBase, k) \notin DOMAIN fs /\ Texture(OutBase, k) \in DOMAIN fs)

\* the diagnostics of category k, as the run prints them
RenameDiagnostic(k) == NotRenamed(config, maps(config)[k])

AssemblyDiagnostic(k) == NotAdded(config, maps(config)[k])

Logged(line) == \E n \in 1..Len(stdout) : stdout[n] = line

(***************************************************************************)
(* C1: after a run with a distinct, non-empty output base name, for every  *)
(* enabled category whose {input_base}_{suffix}.tiff existed before the    *)
(* run: that file is absent, {output_base}_{suffix}.tiff is present (with   *)
(* the content the source had), and propertyValues[property_key] is the    *)
(* asset path built from the output base name.                             *)
(***************************************************************************)
Thm_C1 ==
    (Built /\ Distinct) =>
        \A k \in Categories :
            (Enabled(k) /\ Texture(InBase, k) \in DOMAIN fs0) =>
                /\ Texture(InBase, k) \notin DOMAIN fs
                /\ Texture(OutBase, k) \in DOMAIN fs
                /\ fs[Texture(OutBase, k)] = fs0[Texture(InBase, k)]
                /\ HasKey(k)
                /\ DictGet(material.propertyValues, PropertyKeys[k]) = AssetPath(k)

\* a finished first run with a distinct output base, an enabled category whose
\* source existed, and one whose destination existed as well
W_C1 ==
    /\ Built /\ Distinct /\ run = 1
    /\ \E k \in Categories :
            Enabled(k) /\ Texture(InBase, k) \in DOMAIN fs0 /\ Texture(OutBase, k) \in DOMAIN fs0

(***************************************************************************)
(* C2: for every enabled category whose texture file never existed (under  *)
(* neither base name), the written material has no entry for its property  *)
(* key, every other enabled category is still processed, the material file *)
(* is written, and the run ends with exit code 0.                          *)
(***************************************************************************)
NeverExisted(k) ==
    /\ Enabled(k)
    /\ Texture(InBase, k) \notin DOMAIN fs0
    /\ Texture(OutBase, k) \notin DOMAIN fs0

Thm_C2 ==
    /\ pc \in BuildPcs => exitCode = -1
    /\ pc = "exit" =>
          \A k \in Categories :
              NeverExisted(k) =>
                  /\ ~HasKey(k)
                  /\ \A o \in Categories \ {k} : Enabled(o) => Processed(o)
                  /\ MaterialFile \in DOMAIN fs
                  /\ fs[MaterialFile] = JsonDump(material)
                  /\ material # NoMaterial
                  /\ exitCode = 0

\* a finished run with an enabled category that never had a file and another
\* enabled category that was renamed and referenced
W_C2 ==
    /\ pc = "exit" /\ Distinct
    /\ \E k, o \in Categories :
            /\ NeverExisted(k)
            /\ o # k /\ Enabled(o) /\ Texture(InBase, o) \in DOMAIN fs0 /\ HasKey(o)

(***************************************************************************)
(* C3, as stated: an enabled category whose expected file is absent at     *)
(* rename time ({input_base}_{suffix}.tiff missing, distinct output base)  *)
(* or at assembly time ({output_base}_{suffix}.tiff missing) gets a        *)
(* diagnostic and is omitted from propertyValues, for every initial        *)
(* directory content.                                                      *)
(***************************************************************************)
AbsentAtRename(k) == Distinct /\ Texture(InBase, k) \notin DOMAIN fs0

AbsentAtAssembly(k) == Texture(OutBase, k) \notin DOMAIN fs

CE_C3 ==
    pc = "exit" =>
        \A k \in Categories :
            (Enabled(k) /\ (AbsentAtRename(k) \/ AbsentAtAssembly(k))) =>
                /\ Logged(RenameDiagnostic(k)) \/ Logged(AssemblyDiagnostic(k))
                /\ ~HasKey(k)

(***************************************************************************)
(* C3, amended: an enabled category whose source is absent at rename time  *)
(* gets the rename diagnostic and nothing of it is renamed; an enabled     *)
(* category whose {output_base}_{suffix}.tiff is absent at assembly time   *)
(* gets the assembly diagnostic and is omitted from propertyValues; in     *)
(* both cases the other categories are processed and the material file is  *)
(* written.  A category whose source is absent while                      *)
(* {output_base}_{suffix}.tiff already exists is not omitted: it is        *)
(* referenced.                                                             *)
(***************************************************************************)
Thm_C3 ==
    pc = "exit" =>
          \A k \in Categories :
              /\ (Enabled(k) /\ AbsentAtRename(k)) =>
                    /\ Logged(RenameDiagnostic(k))
                    /\ Texture(OutBase, k) \in DOMAIN fs <=> Texture(OutBase, k) \in DOMAIN fs0
                    /\ Texture(OutBase, k) \in DOMAIN fs0 =>
                            /\ fs[Texture(OutBase, k)] = fs0[Texture(OutBase, k)]
                            /\ HasKey(k)
                            /\ ~Logged(AssemblyDiagnostic(k))
              /\ (Enabled(k) /\ AbsentAtAssembly(k)) =>
                    /\ Logged(AssemblyDiagnostic(k))
                    /\ ~HasKey(k)
              /\ (Enabled(k) /\ (AbsentAtRename(k) \/ AbsentAtAssembly(k))) =>
                    /\ \A o \in Categories \ {k} : Enabled(o) => Processed(o)
                    /\ MaterialFile \in DOMAIN fs
                    /\ exitCode = 0

\* a finished first run where an enabled category has no source but already has
\* its file under the output base name, next to another enabled category
W_C3 ==
    /\ pc = "exit" /\ run = 1
    /\ \E k, o \in Categories :
            /\ Enabled(k) /\ AbsentAtRename(k) /\ Texture(OutBase, k) \in DOMAIN fs0
            /\ o # k /\ Enabled(o) /\ AbsentAtAssembly(o)

(***************************************************************************)
(* C4: after build(), propertyValues holds the property key of a map-table *)
(* entry if and only if the category is enabled and                        *)
(* {output_base}_{suffix}.tiff exists after the rename step; its value is  *)
(* then {assets_root}/{output_base}_{suffix}.tiff for the entry's own      *)
(* suffix; no other key appears; materialType and materialTypeVersion have *)
(* their constant values, in the dict and in the file written.             *)
(***************************************************************************)
Thm_C4 ==
    Built =>
        /\ \A k \in Categories :
              /\ HasKey(k) <=> (Enabled(k) /\ Texture(OutBase, k) \in DOMAIN fs)
              /\ HasKey(k) => DictGet(material.propertyValues, PropertyKeys[k]) = AssetPath(k)
        /\ DictKeys(material.propertyValues) \subseteq {PropertyKeys[k] : k \in Categories}
        /\ Len(material.propertyValues) = Cardinality(DictKeys(material.propertyValues))
        /\ material.materialType = "Materials/Types/StandardPBR.materialtype"
        /\ material.materialTypeVersion = 4
        /\ StartsWith(fs[MaterialFile],
                      "{\"materialType\": \"Materials/Types/StandardPBR.materialtype\", "
                          \o "\"materialTypeVersion\": 4, \"propertyValues\": {")

\* a finished run with a referenced category, an enabled category left out and a
\* disabled category whose file is there
W_C4 ==
    /\ Built
    /\ \E k, o, d \in Categories :
            /\ Enabled(k) /\ HasKey(k)
            /\ Enabled(o) /\ ~HasKey(o)
            /\ ~Enabled(d) /\ Texture(OutBase, d) \in DOMAIN fs

(***************************************************************************)
(* C5: when build() is entered with an empty output base name or one equal *)
(* to the input base name, the rename step renames no file (the directory  *)
(* is as it was when make_material starts, and differs at the end only by  *)
(* the material file) and output_file_name is the input base name.         *)
(***************************************************************************)
Thm_C5 ==
    ~Distinct =>
        /\ pc # "rename_loop"
        /\ pc = "make" => (fs = fs0 /\ config.output_file_name = given.input_file_name)
        /\ pc = "exit" =>
              /\ config.output_file_name = given.input_file_name
              /\ DOMAIN fs \ {MaterialFile} = DOMAIN fs0 \ {MaterialFile}
              /\ \A p \in DOMAIN fs0 \ {MaterialFile} : fs[p] = fs0[p]

\* the rename step was skipped although an enabled category has its source file
W_C5 ==
    /\ pc = "make" /\ ~Distinct /\ j = 1
    /\ \E k \in Categories : Enabled(k) /\ Texture(InBase, k) \in DOMAIN fs0

(***************************************************************************)
(* C6: in every run started through main, output_file_name is non-empty    *)
(* when make_material runs and when the path of the material file is       *)
(* computed, and it is defaulted to input_file_name before any file is     *)
(* renamed or written.                                                     *)
(***************************************************************************)
Thm_C6 ==
    /\ pc \in {"rename_loop", "make"} => config.output_file_name # ""
    /\ Built => config.output_file_name # ""
    /\ config.output_file_name = "" => fs = fs0

\* make_material is about to run in a run that was given -o with an empty argument
W_C6 ==
    /\ pc = "make"
    /\ \E n \in 1..Len(opts) : opts[n] = [opt |-> "-o", arg |-> ""]
    /\ given.output_file_name = ""

(***************************************************************************)
(* C7: from a fresh configuration, --all alone yields the flag values of   *)
(* the eight individual flags (all true), and --default alone yields       *)
(* exactly dif, ddn, occ, met, rou true and emi, cav, dis false.           *)
(***************************************************************************)
Flags(cfg) ==
    <<cfg.export_occ, cfg.export_cav, cfg.export_dif, cfg.export_dis, cfg.export_emi,
      cfg.export_met, cfg.export_ddn, cfg.export_rou>>

LoopOver == pc \in {"loop", "exit"} /\ i > Len(opts)

Thm_C7 ==
    LoopOver =>
        /\ argv = <<"--all">> =>
                Flags(config) = <<TRUE, TRUE, TRUE, TRUE, TRUE, TRUE, TRUE, TRUE>>
        /\ argv = EightFlags =>
                Flags(config) = <<TRUE, TRUE, TRUE, TRUE, TRUE, TRUE, TRUE, TRUE>>
        /\ argv = <<"--default">> =>
                Flags(config) = <<TRUE, FALSE, TRUE, FALSE, FALSE, TRUE, TRUE, TRUE>>

\* main has gone through --all alone
W_C7 == LoopOver /\ argv = <<"--all">> /\ Len(opts) = 1

(***************************************************************************)
(* C8 and C9: vocabulary.                                                  *)
(***************************************************************************)
\* the value the options leave in input_file_name: the argument of the last -f
InputOf(o) ==
    LET fs_ == {n \in 1..Len(o) : o[n].opt = "-f"}
    IN  IF fs_ = {} THEN "" ELSE o[CHOOSE n \in fs_ : \A q \in fs_ : q <= n].arg

HasHelp(o) == \E n \in 1..Len(o) : o[n].opt = "-h"

\* the run has not touched the file system nor entered build()
Untouched == fs = fs0 /\ pc \notin BuildPcs /\ material = NoMaterial

(***************************************************************************)
(* C8, as stated: every argument sequence that fails option parsing, or    *)
(* that parses but supplies no -f (or an empty -f value), makes main print *)
(* the error text and exit with code 1 without build() being entered.      *)
(***************************************************************************)
CE_C8 ==
    LET r == getopt(argv)
    IN  (pc = "exit" /\ (~r.ok \/ InputOf(r.opts) = "")) =>
            /\ exitCode = 1
            /\ stdout = <<ErrorText>>
            /\ Untouched

(***************************************************************************)
(* C8, amended: an argument sequence that fails option parsing, or that    *)
(* parses to at least one option, none of them -h, and leaves no -f value  *)
(* (or an empty one), makes main print the error text and exit with code 1; *)
(* and no argument sequence that fails parsing or leaves no -f value, the  *)
(* ones answered with the usage text included, enters build() or changes   *)
(* a file.                                                                 *)
(***************************************************************************)
Thm_C8 ==
    LET r == getopt(argv)
    IN  /\ (~r.ok \/ InputOf(r.opts) = "") => Untouched
        /\ (pc = "exit" /\ (~r.ok \/ (r.opts # <<>> /\ ~HasHelp(r.opts) /\ InputOf(r.opts) = "")))
              => (exitCode = 1 /\ stdout = <<ErrorText>>)

\* main has ended on --dif alone
W_C8 == pc = "exit" /\ argv = <<"--dif">> /\ exitCode = 1

(***************************************************************************)
(* C9: an argument sequence that yields no parsed options, or one whose    *)
(* options are valid and hold -h at any position, makes main print the     *)
(* usage text and exit with code 0; build() is not entered and no file is  *)
(* renamed or created.                                                     *)
(***************************************************************************)
Thm_C9 ==
    LET r == getopt(argv)
    IN  (r.ok /\ (r.opts = <<>> \/ HasHelp(r.opts))) =>
            /\ Untouched
            /\ pc = "exit" => (exitCode = 0 /\ stdout = <<HelpText>>)

\* main has ended on a -h that came last, after a -f with a value and a -o
W_C9 ==
    /\ pc = "exit"
    /\ Len(opts) >= 3
    /\ opts[Len(opts)].opt = "-h"
    /\ \E n \in 1..Len(opts) : opts[n].opt = "-f" /\ opts[n].arg # ""
    /\ \E n \in 1..Len(opts) : opts[n].opt = "-o"

(***************************************************************************)
(* C10: a second run with the same arguments leaves the files the first    *)
(* run left and writes the same material; with a distinct output base it   *)
(* renames nothing and references what the first run referenced.           *)
(***************************************************************************)
Thm_C10 ==
    /\ (run = 2 /\ pc \in BuildPcs) => (fs = fs0 /\ fs = first.fs)
    /\ (run = 2 /\ pc = "exit") =>
          /\ exitCode = 0
          /\ fs = first.fs
          /\ material = first.material

\* the second run has ended after a first run that renamed a file
W_C10 ==
    /\ run = 2 /\ pc = "exit" /\ Distinct
    /\ \E k \in Categories :
            /\ Enabled(k)
            /\ Texture(InBase, k) \in DOMAIN first.fs0
            /\ Texture(InBase, k) \notin DOMAIN first.fs
            /\ HasKey(k)
=============================================================================
